---------------------------- MODULE Spec2Model ----------------------------
(***************************************************************************)
(* Gemini watermark remover: the unblend engine (worker.js and the page's  *)
(* ImageProcessor.removeWatermark), the mask calibrator (loadMask), the    *)
(* worker's message handler and the page's per-image processing.           *)
(*                                                                         *)
(* Numbers.  JavaScript computes alpha in floating point.  The model keeps *)
(* every alpha as an exact fraction: a mask alpha is a numerator over      *)
(* AlphaDen, a gain a numerator over GainDen, and the effective alpha      *)
(* (mask alpha * gain) a numerator over EffDen = AlphaDen * GainDen.       *)
(* AlphaDen is a multiple of 255 and of 1000, so that maxVal/255 (the      *)
(* calibrated alphas) and the thresholds 0.001, 0.002 and 0.99 are all     *)
(* exact.  Float32/float64 rounding of these fractions is not modelled.    *)
(*                                                                         *)
(* Buffers.  ImageData.data is a Uint8ClampedArray of width*height*4       *)
(* samples.  It is kept as a total function of the index in sparse form:   *)
(* the samples of the decoded picture are Orig(seed, i), and `over` holds  *)
(* the samples that differ from it.  SetSample keeps the form canonical,   *)
(* so two buffers are equal exactly when all their samples are equal.      *)
(***************************************************************************)
EXTENDS Integers, Sequences, FiniteSets, TLC

VARIABLES
    \* one call of removeWatermark, taken alone (CallSpec, PixelSpec)
    arg,            \* its arguments: imageData, config, and the mask table it reads
    ret,            \* what it did: the implementation called, the outcome, the buffer after
    \* the worker (worker.js)
    workerMasks,    \* the global `masks`
    sent,           \* every message posted to the worker so far, in order
    nHandled,       \* how many of them onmessage has handled (the rest are queued)
    outbox,         \* what the worker has posted back, in order
    \* the page (script.js)
    STATE_masks,    \* STATE.masks
    loadSt,         \* per mask type, the state of loadMask's Image: loading, loaded, failed
    refImg,         \* per mask type, the pixels getImageData returned in img.onload
    initSt,         \* init(): awaiting Promise.all, done, or failed (the alert)
    proc,           \* the ImageProcessor of one image card (Null before the file is dropped)
    \* press handling on the card's wrapper (later revision, part_000)
    pressTimer,     \* `let pressTimer`: the timeout set last (NoTimer before the first)
    pending,        \* the long-press timeouts set and neither fired nor cleared
    isLongPress,    \* `let isLongPress`
    lightbox,       \* the Lightbox: modal display, activeOriginal, activeProcessed
    press,          \* per pointer (button or finger): up, or where its press began
    long,           \* per pointer: its press has lasted 250 ms
    over            \* the mouse pointer is over the wrapper

callVars == <<arg, ret>>
workerVars == <<workerMasks, sent, nHandled, outbox>>
pageVars == <<STATE_masks, loadSt, refImg, initSt, proc>>
pressVars == <<pressTimer, pending, isLongPress, lightbox, press, long, over>>
vars == <<arg, ret, workerMasks, sent, nHandled, outbox,
          STATE_masks, loadSt, refImg, initSt, proc,
          pressTimer, pending, isLongPress, lightbox, press, long, over>>

---------------------------------------------------------------------------
(* Program constants (worker.js CONSTANTS; the page inlines the same values) *)

LARGE_THRESHOLD == 1024
MARGIN_LARGE == 64
MARGIN_SMALL == 32
LOGO_VALUE == 255
\* 0.002 and 0.99 as fractions <<numerator, denominator>> in lowest terms
ALPHA_THRESHOLD == <<1, 500>>
MAX_ALPHA == <<99, 100>>

(* Fixed-point units *)
AlphaDen == 255 * 200
GainDen == 2 * 10
EffDen == AlphaDen * GainDen

(* Bounds of the model *)
MaxMaskDim == 2     \* masks are at most MaxMaskDim x MaxMaskDim
MaxMsgs == 3        \* messages posted to the worker
MaxTimers == 2      \* processing timers pending at once

Modes == {"auto", "small", "large"}

\* JavaScript null (an unset mask slot, an image not loaded yet)
Null == [null |-> TRUE]

---------------------------------------------------------------------------
(* Pixel buffers *)

\* The sample at index i of the picture as decoded (before any write)
Orig(seed, i) == (seed + 3 * i) % 256

\* data[i]
Sample(data, i) ==
    IF i \in DOMAIN data.over THEN data.over[i] ELSE Orig(data.seed, i)

\* data[i] = v, for an integer v in 0..255
SetSample(data, i, v) ==
    IF v = Orig(data.seed, i)
    THEN [data EXCEPT !.over = [j \in (DOMAIN data.over) \ {i} |-> data.over[j]]]
    ELSE [data EXCEPT !.over = (i :> v) @@ data.over]

\* Mutant: the store of a Uint8Array, which truncates instead of rounding
ToUint8Truncated(num, den) ==
    IF num <= 0 THEN 0
    ELSE IF num >= 255 * den THEN 255
    ELSE num \div den

\* What a Uint8ClampedArray stores when assigned the number num/den (den > 0):
\* clamped to 0..255 and rounded to the nearest integer, ties to even.
ToUint8Clamped(num, den) ==
    IF num <= 0 THEN 0
    ELSE IF num >= 255 * den THEN 255
    ELSE LET q == num \div den
             r == num % den
         IN  IF 2 * r < den THEN q
             ELSE IF 2 * r > den THEN q + 1
             ELSE IF q % 2 = 0 THEN q ELSE q + 1


---------------------------------------------------------------------------
(* Opacity masks: [width, height, alphas], alphas a sequence of numerators *)
(* over AlphaDen (alphas[k + 1] is the code's alphas[k])                   *)

\* x < n/d and x > n/d for an effective alpha x (a numerator over EffDen)
AlphaBelow(x, frac) == x * frac[2] < frac[1] * EffDen
AlphaAbove(x, frac) == x * frac[2] > frac[1] * EffDen
\* the fraction itself as a numerator over EffDen
AlphaOf(frac) == (frac[1] * EffDen) \div frac[2]

---------------------------------------------------------------------------
(* worker.js: removeWatermark(imageData, config), reading the global masks *)

\* Mutant: the threshold compared with >= instead of >
W_mode_atLeast(config, w, h) ==
    IF config.forceMode = "auto"
    THEN IF w >= LARGE_THRESHOLD /\ h >= LARGE_THRESHOLD THEN "large" ELSE "small"
    ELSE config.forceMode

\* lines 47-54
W_mode(config, w, h) ==
    IF config.forceMode = "auto"
    THEN IF w > LARGE_THRESHOLD /\ h > LARGE_THRESHOLD THEN "large" ELSE "small"
    ELSE config.forceMode

\* Mutant: no clamp to [0, 255], the store wrapping modulo 256
W_unblend_wrapping(currentVal, alpha) ==
    LET oneMinusAlpha == EffDen - alpha
        num == currentVal * EffDen - alpha * LOGO_VALUE
    IN  (num \div oneMinusAlpha) % 256

\* lines 84, 88-92: one sample, alpha already clamped
W_unblend(currentVal, alpha) ==
    LET oneMinusAlpha == EffDen - alpha
        num == currentVal * EffDen - alpha * LOGO_VALUE
    IN  IF num < 0 THEN ToUint8Clamped(0, 1)
        ELSE IF num > 255 * oneMinusAlpha THEN ToUint8Clamped(255, 1)
        ELSE ToUint8Clamped(num, oneMinusAlpha)

\* Mutant: the channel loop running over the alpha channel too (c < 4)
RECURSIVE W_channels_four(_, _, _, _)
W_channels_four(data, idx, alpha, c) ==
    IF c < 4
    THEN W_channels_four(
             SetSample(data, idx + c, W_unblend(Sample(data, idx + c), alpha)),
             idx, alpha, c + 1)
    ELSE data

\* lines 87-93: for (let c = 0; c < 3; c++)
RECURSIVE W_channels(_, _, _, _)
W_channels(data, idx, alpha, c) ==
    IF c < 3
    THEN W_channels(SetSample(data, idx + c, W_unblend(Sample(data, idx + c), alpha)),
                    idx, alpha, c + 1)
    ELSE data

\* Mutant: alpha clamped to 0.9 instead of 0.99
W_alpha_clampLow(maskAlpha, gain) ==
    LET alpha == maskAlpha * gain
    IN  IF AlphaBelow(alpha, ALPHA_THRESHOLD) THEN -1
        ELSE IF AlphaAbove(alpha, MAX_ALPHA) THEN AlphaOf(<<9, 10>>)
        ELSE alpha

\* Mutant: the threshold skip taken at alpha <= 0.002 instead of alpha < 0.002
W_alpha_skipAtThreshold(maskAlpha, gain) ==
    LET alpha == maskAlpha * gain
    IN  IF ~AlphaAbove(alpha, ALPHA_THRESHOLD) THEN -1
        ELSE IF AlphaAbove(alpha, MAX_ALPHA) THEN AlphaOf(MAX_ALPHA)
        ELSE alpha

\* Mutant: alpha clamped to 0.999 instead of 0.99
W_alpha_clampHigh(maskAlpha, gain) ==
    LET alpha == maskAlpha * gain
    IN  IF AlphaBelow(alpha, ALPHA_THRESHOLD) THEN -1
        ELSE IF AlphaAbove(alpha, <<999, 1000>>) THEN AlphaOf(<<999, 1000>>)
        ELSE alpha

\* lines 79-82: the effective alpha of a mask pixel; -1 stands for `continue`
W_alpha(maskAlpha, gain) ==
    LET alpha == maskAlpha * gain
    IN  IF AlphaBelow(alpha, ALPHA_THRESHOLD) THEN -1
        ELSE IF AlphaAbove(alpha, MAX_ALPHA) THEN AlphaOf(MAX_ALPHA)
        ELSE alpha

\* lines 73-93: the body of the two loops for one (mx, my)
W_pixel(data, w, h, mask, gain, posX, posY, mx, my) ==
    LET iy == posY + my
        ix == posX + mx
    IN  IF ix >= w \/ iy >= h THEN data
        ELSE LET mIdx == my * mask.width + mx
                 alpha == W_alpha(mask.alphas[mIdx + 1], gain)
                 idx == (iy * w + ix) * 4
             IN  IF alpha < 0 THEN data ELSE W_channels(data, idx, alpha, 0)

\* lines 71-95: for my, for mx, in row-major order; k = my * mask.width + mx
RECURSIVE W_loop(_, _, _, _, _, _, _, _)
W_loop(data, w, h, mask, gain, posX, posY, k) ==
    IF k < mask.width * mask.height
    THEN LET next == W_pixel(data, w, h, mask, gain, posX, posY,
                             k % mask.width, k \div mask.width)
         IN  \* (the test is always true: it has the buffer computed before
             \* the next iteration starts rather than inside it)
             IF next = next
             THEN W_loop(next, w, h, mask, gain, posX, posY, k + 1)
             ELSE next
    ELSE data

\* Mutant: a mask that does not fit raised as an error instead of returning
removeWatermark_throwsWhenTooSmall(imageData, config, masks) ==
    LET w == imageData.width
        h == imageData.height
        mode == W_mode(config, w, h)
        mask == IF mode = "large" THEN masks.large ELSE masks.small
    IN  IF mask = Null
        THEN [outcome |-> "error", message |-> "Masks not loaded yet",
              mode |-> mode, imageData |-> imageData]
        ELSE LET margin == IF mode = "large" THEN MARGIN_LARGE ELSE MARGIN_SMALL
                 posX == w - margin - mask.width
                 posY == h - margin - mask.height
             IN  IF posX < 0 \/ posY < 0
                 THEN [outcome |-> "error", message |-> "Watermark does not fit",
                       mode |-> mode, imageData |-> imageData]
                 ELSE [outcome |-> "ok", message |-> "", mode |-> mode,
                       imageData |-> [imageData EXCEPT !.data =
                           W_loop(imageData.data, w, h, mask,
                                  config.alphaGain, posX, posY, 0)]]

\* lines 42-96.  The result: the outcome (returned or threw), the mode that was
\* resolved, and imageData as the call left it.
removeWatermark(imageData, config, masks) ==
    LET w == imageData.width
        h == imageData.height
        mode == W_mode(config, w, h)
        mask == IF mode = "large" THEN masks.large ELSE masks.small
    IN  IF mask = Null
        THEN [outcome |-> "error", message |-> "Masks not loaded yet",
              mode |-> mode, imageData |-> imageData]
        ELSE LET margin == IF mode = "large" THEN MARGIN_LARGE ELSE MARGIN_SMALL
                 posX == w - margin - mask.width
                 posY == h - margin - mask.height
             IN  IF posX < 0 \/ posY < 0
                 THEN [outcome |-> "ok", message |-> "",
                       mode |-> mode, imageData |-> imageData]
                 ELSE [outcome |-> "ok", message |-> "", mode |-> mode,
                       imageData |-> [imageData EXCEPT !.data =
                           W_loop(imageData.data, w, h, mask,
                                  config.alphaGain, posX, posY, 0)]]

---------------------------------------------------------------------------
(* script.js: ImageProcessor.removeWatermark(imageData), reading            *)
(* this.config and STATE.masks                                              *)

\* lines 251-258
P_mode(config, w, h) ==
    IF config.forceMode = "auto"
    THEN IF w > 1024 /\ h > 1024 THEN "large" ELSE "small"
    ELSE config.forceMode

\* lines 289, 293-297
P_unblend(currentVal, alpha) ==
    LET logoValue == 255
        oneMinusAlpha == EffDen - alpha
        num == currentVal * EffDen - alpha * logoValue
    IN  IF num < 0 THEN ToUint8Clamped(0, 1)
        ELSE IF num > 255 * oneMinusAlpha THEN ToUint8Clamped(255, 1)
        ELSE ToUint8Clamped(num, oneMinusAlpha)

\* lines 292-298
RECURSIVE P_channels(_, _, _, _)
P_channels(data, idx, alpha, c) ==
    IF c < 3
    THEN P_channels(SetSample(data, idx + c, P_unblend(Sample(data, idx + c), alpha)),
                    idx, alpha, c + 1)
    ELSE data

\* lines 272-273, 284-287; -1 stands for `continue`
P_alpha(maskAlpha, gain) ==
    LET alphaThreshold == <<1, 500>>
        maxAlpha == <<99, 100>>
        alpha == maskAlpha * gain
    IN  IF AlphaBelow(alpha, alphaThreshold) THEN -1
        ELSE IF AlphaAbove(alpha, maxAlpha) THEN AlphaOf(maxAlpha)
        ELSE alpha

\* lines 278-298
P_pixel(data, w, h, mask, gain, posX, posY, mx, my) ==
    LET iy == posY + my
        ix == posX + mx
    IN  IF ix >= w \/ iy >= h THEN data
        ELSE LET mIdx == my * mask.width + mx
                 alpha == P_alpha(mask.alphas[mIdx + 1], gain)
                 idx == (iy * w + ix) * 4
             IN  IF alpha < 0 THEN data ELSE P_channels(data, idx, alpha, 0)

\* lines 276-300
RECURSIVE P_loop(_, _, _, _, _, _, _, _)
P_loop(data, w, h, mask, gain, posX, posY, k) ==
    IF k < mask.width * mask.height
    THEN LET next == P_pixel(data, w, h, mask, gain, posX, posY,
                             k % mask.width, k \div mask.width)
         IN  \* (the test is always true: it has the buffer computed before
             \* the next iteration starts rather than inside it)
             IF next = next
             THEN P_loop(next, w, h, mask, gain, posX, posY, k + 1)
             ELSE next
    ELSE data

\* lines 246-301.  `if (!mask) return;` returns normally.
ImageProcessor_removeWatermark(imageData, config, masks) ==
    LET w == imageData.width
        h == imageData.height
        mode == P_mode(config, w, h)
        mask == IF mode = "large" THEN masks.large ELSE masks.small
    IN  IF mask = Null
        THEN [outcome |-> "ok", message |-> "", mode |-> mode, imageData |-> imageData]
        ELSE LET margin == IF mode = "large" THEN 64 ELSE 32
                 posX == w - margin - mask.width
                 posY == h - margin - mask.height
             IN  IF posX < 0 \/ posY < 0
                 THEN [outcome |-> "ok", message |-> "",
                       mode |-> mode, imageData |-> imageData]
                 ELSE [outcome |-> "ok", message |-> "", mode |-> mode,
                       imageData |-> [imageData EXCEPT !.data =
                           P_loop(imageData.data, w, h, mask,
                                  config.alphaGain, posX, posY, 0)]]

---------------------------------------------------------------------------
(* The later revision of script.js (src/unnamed/part_000):                  *)
(* ImageProcessor.removeWatermark(imageData), lines 299-354                 *)

\* lines 304-311
L_mode(config, w, h) ==
    IF config.forceMode = "auto"
    THEN IF w > 1024 /\ h > 1024 THEN "large" ELSE "small"
    ELSE config.forceMode

\* lines 342, 346-350
L_unblend(currentVal, alpha) ==
    LET logoValue == 255
        oneMinusAlpha == EffDen - alpha
        num == currentVal * EffDen - alpha * logoValue
    IN  IF num < 0 THEN ToUint8Clamped(0, 1)
        ELSE IF num > 255 * oneMinusAlpha THEN ToUint8Clamped(255, 1)
        ELSE ToUint8Clamped(num, oneMinusAlpha)

\* lines 345-351
RECURSIVE L_channels(_, _, _, _)
L_channels(data, idx, alpha, c) ==
    IF c < 3
    THEN L_channels(SetSample(data, idx + c, L_unblend(Sample(data, idx + c), alpha)),
                    idx, alpha, c + 1)
    ELSE data

\* lines 325-326, 337-340; -1 stands for `continue`
L_alpha(maskAlpha, gain) ==
    LET alphaThreshold == <<1, 500>>
        maxAlpha == <<99, 100>>
        alpha == maskAlpha * gain
    IN  IF AlphaBelow(alpha, alphaThreshold) THEN -1
        ELSE IF AlphaAbove(alpha, maxAlpha) THEN AlphaOf(maxAlpha)
        ELSE alpha

\* lines 331-351
L_pixel(data, w, h, mask, gain, posX, posY, mx, my) ==
    LET iy == posY + my
        ix == posX + mx
    IN  IF ix >= w \/ iy >= h THEN data
        ELSE LET mIdx == my * mask.width + mx
                 alpha == L_alpha(mask.alphas[mIdx + 1], gain)
                 idx == (iy * w + ix) * 4
             IN  IF alpha < 0 THEN data ELSE L_channels(data, idx, alpha, 0)

\* lines 329-353
RECURSIVE L_loop(_, _, _, _, _, _, _, _)
L_loop(data, w, h, mask, gain, posX, posY, k) ==
    IF k < mask.width * mask.height
    THEN LET next == L_pixel(data, w, h, mask, gain, posX, posY,
                             k % mask.width, k \div mask.width)
         IN  \* (the test is always true: it has the buffer computed before
             \* the next iteration starts rather than inside it)
             IF next = next
             THEN L_loop(next, w, h, mask, gain, posX, posY, k + 1)
             ELSE next
    ELSE data

\* lines 299-354.  `if (!mask) return;` returns normally here too.
ImageProcessor_removeWatermark_later(imageData, config, masks) ==
    LET w == imageData.width
        h == imageData.height
        mode == L_mode(config, w, h)
        mask == IF mode = "large" THEN masks.large ELSE masks.small
    IN  IF mask = Null
        THEN [outcome |-> "ok", message |-> "", mode |-> mode, imageData |-> imageData]
        ELSE LET margin == IF mode = "large" THEN 64 ELSE 32
                 posX == w - margin - mask.width
                 posY == h - margin - mask.height
             IN  IF posX < 0 \/ posY < 0
                 THEN [outcome |-> "ok", message |-> "",
                       mode |-> mode, imageData |-> imageData]
                 ELSE [outcome |-> "ok", message |-> "", mode |-> mode,
                       imageData |-> [imageData EXCEPT !.data =
                           L_loop(imageData.data, w, h, mask,
                                  config.alphaGain, posX, posY, 0)]]

---------------------------------------------------------------------------
(* script.js: loadMask, the mask calibrator *)

Max(a, b) == IF a >= b THEN a ELSE b

\* Mutant: the reference pixel's alpha channel taken into the maximum
Calibrate_withAlphaChannel(imageData) ==
    LET w == imageData.width
        h == imageData.height
        data == imageData.data
    IN  [width |-> w, height |-> h,
         alphas |-> [i \in 1..(w * h) |->
            LET r == data[(i - 1) * 4 + 1]
                g == data[(i - 1) * 4 + 2]
                b == data[(i - 1) * 4 + 3]
                a == data[(i - 1) * 4 + 4]
                maxVal == Max(Max(r, a), Max(g, b))
            IN  (maxVal * AlphaDen) \div 255]]

\* lines 50-62, img.onload: the mask computed from the reference image's
\* pixels, imageData = [width, height, data] with data the w*h*4 samples
\* (data[k + 1] is the code's data[k])
Calibrate(imageData) ==
    LET w == imageData.width
        h == imageData.height
        data == imageData.data
    IN  [width |-> w, height |-> h,
         alphas |-> [i \in 1..(w * h) |->
            LET r == data[(i - 1) * 4 + 1]
                g == data[(i - 1) * 4 + 2]
                b == data[(i - 1) * 4 + 3]
                maxVal == Max(r, Max(g, b))
            IN  (maxVal * AlphaDen) \div 255]]

---------------------------------------------------------------------------
(* Inputs *)

\* Pixels (R, G, B, A) of the reference watermark images
RefPixels ==
    << <<128, 40, 200, 255>>, <<255, 255, 255, 255>>, <<1, 1, 0, 255>>, <<0, 0, 0, 0>> >>

\* A w x h reference image whose pixels run through RefPixels from the k-th on
RefImage(w, h, k) ==
    [width |-> w, height |-> h,
     data |-> [j \in 1..(w * h * 4) |->
        RefPixels[((k + ((j - 1) \div 4)) % Len(RefPixels)) + 1][((j - 1) % 4) + 1]]]

RefImages ==
    {RefImage(w, h, k) : w \in 1..MaxMaskDim, h \in 1..MaxMaskDim, k \in {0, 2}}

\* A w x h mask of one constant alpha (a numerator over AlphaDen)
ConstMask(w, h, a) == [width |-> w, height |-> h, alphas |-> [i \in 1..(w * h) |-> a]]

Masks == {Calibrate(img) : img \in RefImages}

MaskTables == [small : Masks \cup {Null}, large : Masks \cup {Null}]

\* A decoded picture of the given size
Picture(w, h, seed) ==
    [width |-> w, height |-> h, data |-> [seed |-> seed, over |-> <<>>]]

Widths == {33, 34, 66, 1024, 1025}
Heights == {33, 66, 1024, 1025}
Seeds == {0, 131}
Pictures == {Picture(w, h, s) : w \in Widths, h \in Heights, s \in Seeds}

\* alphaGain as a numerator over GainDen: 0.5, 1.0, 1.5
Gains == {10, 20, 30}
Configs == [forceMode : Modes, alphaGain : Gains]

NoCall == [impl |-> "none"]

---------------------------------------------------------------------------
(* worker.js: the message handler *)

NoMasks == [small |-> Null, large |-> Null]
NoArg == [none |-> TRUE]

\* lines 12-15
WorkerInit ==
    /\ workerMasks = NoMasks
    /\ sent = <<>>
    /\ nHandled = 0
    /\ outbox = <<>>

\* Mask tables the main thread may send
WorkerTables ==
    [small : {Null, Calibrate(RefImage(1, 1, 0)), Calibrate(RefImage(MaxMaskDim, 1, 2))},
     large : {Null, Calibrate(RefImage(MaxMaskDim, MaxMaskDim, 2))}] \ {NoMasks}

WorkerPictures == {Picture(32, 33, 0), Picture(66, 70, 131), Picture(1025, 1025, 0)}

\* The messages the main thread may post; a request carries the id the
\* sender gave it
Messages(id) ==
    {[type |-> "INIT_MASKS", payload |-> t] : t \in WorkerTables}
    \cup {[type |-> "PROCESS_IMAGE",
           payload |-> [imageData |-> img,
                        config |-> [forceMode |-> m, alphaGain |-> GainDen],
                        id |-> id]] : img \in WorkerPictures, m \in Modes}
    \cup {[type |-> "OTHER", payload |-> Null]}

\* The main thread posts a message: it is queued for onmessage
PostToWorker ==
    /\ Len(sent) < MaxMsgs
    /\ \E msg \in Messages(Len(sent) + 1) : sent' = Append(sent, msg)
    /\ UNCHANGED <<workerMasks, nHandled, outbox, callVars, pageVars, pressVars>>

\* The message onmessage is called with next
NextMessage == sent[nHandled + 1]

\* lines 21-22: type === 'INIT_MASKS'
OnInitMasks ==
    /\ nHandled < Len(sent)
    /\ NextMessage.type = "INIT_MASKS"
    /\ workerMasks' = NextMessage.payload
    /\ nHandled' = nHandled + 1
    /\ UNCHANGED <<sent, outbox, callVars, pageVars, pressVars>>

\* Mutant: the catch block logs the error and posts nothing
OnProcessImage_dropsError ==
    /\ nHandled < Len(sent)
    /\ NextMessage.type = "PROCESS_IMAGE"
    /\ LET payload == NextMessage.payload
           r == removeWatermark(payload.imageData, payload.config, workerMasks)
       IN  IF r.outcome = "ok"
           THEN outbox' = Append(outbox, [type |-> "PROCESS_COMPLETE",
                                          payload |-> [imageData |-> r.imageData],
                                          id |-> payload.id])
           ELSE outbox' = outbox
    /\ nHandled' = nHandled + 1
    /\ UNCHANGED <<workerMasks, sent, callVars, pageVars, pressVars>>

\* Mutant: the engine keeps the buffer of its last successful call and works
\* on it again when the next request has a picture of the same size
OnProcessImage_retainsBuffer ==
    /\ nHandled < Len(sent)
    /\ NextMessage.type = "PROCESS_IMAGE"
    /\ LET payload == NextMessage.payload
           last == IF outbox = <<>> THEN Null ELSE outbox[Len(outbox)]
           kept == /\ last # Null
                   /\ last.type = "PROCESS_COMPLETE"
                   /\ last.payload.imageData.width = payload.imageData.width
                   /\ last.payload.imageData.height = payload.imageData.height
           imageData == IF kept THEN last.payload.imageData ELSE payload.imageData
           r == removeWatermark(imageData, payload.config, workerMasks)
       IN  IF r.outcome = "ok"
           THEN outbox' = Append(outbox, [type |-> "PROCESS_COMPLETE",
                                          payload |-> [imageData |-> r.imageData],
                                          id |-> payload.id])
           ELSE outbox' = Append(outbox, [type |-> "PROCESS_ERROR",
                                          payload |-> r.message,
                                          id |-> payload.id])
    /\ nHandled' = nHandled + 1
    /\ UNCHANGED <<workerMasks, sent, callVars, pageVars, pressVars>>

\* lines 23-38: type === 'PROCESS_IMAGE'
OnProcessImage ==
    /\ nHandled < Len(sent)
    /\ NextMessage.type = "PROCESS_IMAGE"
    /\ LET payload == NextMessage.payload
           r == removeWatermark(payload.imageData, payload.config, workerMasks)
       IN  IF r.outcome = "ok"
           THEN outbox' = Append(outbox, [type |-> "PROCESS_COMPLETE",
                                          payload |-> [imageData |-> r.imageData],
                                          id |-> payload.id])
           ELSE outbox' = Append(outbox, [type |-> "PROCESS_ERROR",
                                          payload |-> r.message,
                                          id |-> payload.id])
    /\ nHandled' = nHandled + 1
    /\ UNCHANGED <<workerMasks, sent, callVars, pageVars, pressVars>>

\* lines 21-39: any other type falls through both branches
OnOtherMessage ==
    /\ nHandled < Len(sent)
    /\ NextMessage.type \notin {"INIT_MASKS", "PROCESS_IMAGE"}
    /\ nHandled' = nHandled + 1
    /\ UNCHANGED <<workerMasks, sent, outbox, callVars, pageVars, pressVars>>

WorkerNext == PostToWorker \/ OnInitMasks \/ OnProcessImage \/ OnOtherMessage

---------------------------------------------------------------------------
(* script.js: the page *)

MaskTypes == {"small", "large"}

\* The reference images the two asset files may decode to
Assets(type) ==
    IF type = "small"
    THEN {RefImage(w, 1, k) : w \in 1..MaxMaskDim, k \in {0, 2}}
    ELSE {RefImage(w, MaxMaskDim, k) : w \in 1..MaxMaskDim, k \in {1, 3}}

PagePictures == {Picture(32, 33, 0), Picture(66, 70, 131), Picture(1025, 1025, 0)}

\* The slider's values (numerators over GainDen): 0.5, 1.0, 1.5
PageGains == {10, 20, 30}

\* lines 5-11, and init() (lines 24-29) having started both loadMask calls
PageInit ==
    /\ STATE_masks = NoMasks
    /\ loadSt = [t \in MaskTypes |-> "loading"]
    /\ refImg = [t \in MaskTypes |-> Null]
    /\ initSt = "pending"
    /\ proc = Null

\* loadMask lines 41-64: img.onload
MaskLoaded(type) ==
    /\ loadSt[type] = "loading"
    /\ \E img \in Assets(type) :
          /\ refImg' = [refImg EXCEPT ![type] = img]
          /\ STATE_masks' = [STATE_masks EXCEPT ![type] = Calibrate(img)]
    /\ loadSt' = [loadSt EXCEPT ![type] = "loaded"]
    /\ UNCHANGED <<initSt, proc, callVars, workerVars, pressVars>>

\* loadMask line 65: img.onerror = reject
MaskFailed(type) ==
    /\ loadSt[type] = "loading"
    /\ loadSt' = [loadSt EXCEPT ![type] = "failed"]
    /\ UNCHANGED <<STATE_masks, refImg, initSt, proc, callVars, workerVars, pressVars>>

\* init lines 26-30: Promise.all resolved, both masks loaded
InitDone ==
    /\ initSt = "pending"
    /\ \A t \in MaskTypes : loadSt[t] = "loaded"
    /\ initSt' = "ok"
    /\ UNCHANGED <<STATE_masks, loadSt, refImg, proc, callVars, workerVars, pressVars>>

\* init lines 31-34: Promise.all rejected as soon as one load failed
InitFailed ==
    /\ initSt = "pending"
    /\ \E t \in MaskTypes : loadSt[t] = "failed"
    /\ initSt' = "failed"
    /\ UNCHANGED <<STATE_masks, loadSt, refImg, proc, callVars, workerVars, pressVars>>

\* handleFiles lines 338-343 and the constructor, lines 74-91: a dropped
\* image file gets its ImageProcessor and card
HandleFile ==
    /\ proc = Null
    /\ proc' = [config |-> [forceMode |-> "auto", alphaGain |-> GainDen],
                originalImage |-> Null,
                processedImageData |-> Null,
                loading |-> FALSE,
                downloadDisabled |-> TRUE,
                canvas |-> Null,
                timers |-> 0]
    /\ UNCHANGED <<STATE_masks, loadSt, refImg, initSt, callVars, workerVars, pressVars>>

\* processAndRender lines 212-218 and 243: nothing without the image, else
\* the overlay is shown and the 50 ms timer set
processAndRender(p) ==
    IF p.originalImage = Null THEN p
    ELSE [p EXCEPT !.loading = TRUE, !.timers = @ + 1]

\* loadImage lines 203-206: img.onload
ImageLoaded ==
    /\ proc # Null
    /\ proc.originalImage = Null
    /\ proc.timers < MaxTimers
    /\ \E img \in PagePictures :
          proc' = processAndRender([proc EXCEPT !.originalImage = img])
    /\ UNCHANGED <<STATE_masks, loadSt, refImg, initSt, callVars, workerVars, pressVars>>

\* createUI lines 157-160: the size select's change
ChangeMode ==
    /\ proc # Null
    /\ proc.timers < MaxTimers
    /\ \E m \in Modes :
          proc' = processAndRender([proc EXCEPT !.config.forceMode = m])
    /\ UNCHANGED <<STATE_masks, loadSt, refImg, initSt, callVars, workerVars, pressVars>>

\* createUI lines 162-167: the slider's input
ChangeGain ==
    /\ proc # Null
    /\ proc.timers < MaxTimers
    /\ \E val \in PageGains :
          proc' = processAndRender([proc EXCEPT !.config.alphaGain = val])
    /\ UNCHANGED <<STATE_masks, loadSt, refImg, initSt, callVars, workerVars, pressVars>>

\* Mutant: the callback reads back the canvas as the last run left it
\* instead of drawing the original image first
TimerFired_cumulative ==
    /\ proc # Null
    /\ proc.timers > 0
    /\ LET imageData == IF proc.processedImageData # Null
                        THEN proc.processedImageData ELSE proc.originalImage
           r == ImageProcessor_removeWatermark(imageData, proc.config, STATE_masks)
       IN  proc' = [proc EXCEPT !.timers = @ - 1,
                                !.canvas = r.imageData,
                                !.processedImageData = r.imageData,
                                !.loading = FALSE,
                                !.downloadDisabled = FALSE]
    /\ UNCHANGED <<STATE_masks, loadSt, refImg, initSt, callVars, workerVars, pressVars>>

\* processAndRender lines 218-243: the timer's callback
TimerFired ==
    /\ proc # Null
    /\ proc.timers > 0
    /\ LET imageData == proc.originalImage
           r == ImageProcessor_removeWatermark(imageData, proc.config, STATE_masks)
       IN  proc' = [proc EXCEPT !.timers = @ - 1,
                                !.canvas = r.imageData,
                                !.processedImageData = r.imageData,
                                !.loading = FALSE,
                                !.downloadDisabled = FALSE]
    /\ UNCHANGED <<STATE_masks, loadSt, refImg, initSt, callVars, workerVars, pressVars>>

---------------------------------------------------------------------------
(* The later revision (src/unnamed/part_000): click and long press on the   *)
(* card's image wrapper, and the Lightbox                                   *)

\* What can press the wrapper: the left button, another mouse button, fingers
Pointers == {"left", "right", "touch1", "touch2"}
MouseButtons == {"left", "right"}
NoTimer == "none"

\* Lightbox, lines 459-466: the modal hidden, nothing active
Lightbox_closed == [display |-> "none", activeOriginal |-> Null, activeProcessed |-> Null]

\* createUI lines 185-186 and no pointer down: pressTimer undefined,
\* isLongPress false
PressIdle ==
    /\ pressTimer = NoTimer
    /\ pending = {}
    /\ isLongPress = FALSE
    /\ lightbox = Lightbox_closed
    /\ press = [p \in Pointers |-> "up"]
    /\ long = [p \in Pointers |-> FALSE]
    /\ over = FALSE

\* lines 173-177 (preventDefault aside)
startCompare(p) ==
    IF p.originalImage = Null THEN p ELSE [p EXCEPT !.canvas = p.originalImage]

\* lines 179-182
endCompare(p) ==
    IF p.processedImageData = Null THEN p ELSE [p EXCEPT !.canvas = p.processedImageData]

\* Lightbox.open, lines 504-521
Lightbox_open(lb, processedImageData, originalImage) ==
    IF processedImageData = Null \/ originalImage = Null THEN lb
    ELSE [display |-> "flex",
          activeOriginal |-> originalImage,
          activeProcessed |-> processedImageData]

\* lines 189-198, for the event of pointer p: a mousedown of a button other
\* than the left returns at once, otherwise the 250 ms timeout is set
startPress(p) ==
    IF p \in MouseButtons /\ p # "left"
    THEN UNCHANGED <<pressTimer, pending, isLongPress>>
    ELSE /\ isLongPress' = FALSE
         /\ pressTimer' = p
         /\ pending' = pending \cup {p}

\* lines 200-216
endPress ==
    /\ pending' = pending \ {pressTimer}
    /\ IF isLongPress
       THEN /\ proc' = endCompare(proc)
            /\ UNCHANGED lightbox
       ELSE /\ lightbox' = Lightbox_open(lightbox, proc.processedImageData,
                                         proc.originalImage)
            /\ UNCHANGED proc
    /\ isLongPress' = FALSE
    /\ UNCHANGED pressTimer

\* lines 218-222
cancelPress ==
    /\ pending' = pending \ {pressTimer}
    /\ proc' = IF isLongPress THEN endCompare(proc) ELSE proc
    /\ isLongPress' = FALSE
    /\ UNCHANGED <<pressTimer, lightbox>>

\* line 231: a mouse button goes down over the wrapper
MouseDown(b) ==
    /\ over /\ press[b] = "up" /\ b \notin pending
    /\ press' = [press EXCEPT ![b] = "wrapper"]
    /\ long' = [long EXCEPT ![b] = FALSE]
    /\ startPress(b)
    /\ UNCHANGED <<proc, lightbox, over, STATE_masks, loadSt, refImg, initSt,
                   callVars, workerVars>>

\* A mouse button goes down elsewhere on the page: no event on the wrapper
MouseDownElsewhere(b) ==
    /\ ~over /\ press[b] = "up"
    /\ press' = [press EXCEPT ![b] = "elsewhere"]
    /\ long' = [long EXCEPT ![b] = FALSE]
    /\ UNCHANGED <<pressTimer, pending, isLongPress, proc, lightbox, over,
                   STATE_masks, loadSt, refImg, initSt, callVars, workerVars>>

\* lines 232-236: a finger touches the wrapper
TouchStart(t) ==
    /\ press[t] = "up" /\ t \notin pending
    /\ press' = [press EXCEPT ![t] = "wrapper"]
    /\ long' = [long EXCEPT ![t] = FALSE]
    /\ startPress(t)
    /\ UNCHANGED <<proc, lightbox, over, STATE_masks, loadSt, refImg, initSt,
                   callVars, workerVars>>

\* line 238: a mouse button is released over the wrapper, wherever it went down
MouseUp(b) ==
    /\ over /\ press[b] # "up"
    /\ press' = [press EXCEPT ![b] = "up"]
    /\ endPress
    /\ UNCHANGED <<long, over, STATE_masks, loadSt, refImg, initSt,
                   callVars, workerVars>>

\* A mouse button is released elsewhere: no event on the wrapper
MouseUpElsewhere(b) ==
    /\ ~over /\ press[b] # "up"
    /\ press' = [press EXCEPT ![b] = "up"]
    /\ UNCHANGED <<pressTimer, pending, isLongPress, proc, lightbox, long, over,
                   STATE_masks, loadSt, refImg, initSt, callVars, workerVars>>

\* line 239: a finger that touched the wrapper is lifted
TouchEnd(t) ==
    /\ press[t] = "wrapper"
    /\ press' = [press EXCEPT ![t] = "up"]
    /\ endPress
    /\ UNCHANGED <<long, over, STATE_masks, loadSt, refImg, initSt,
                   callVars, workerVars>>

\* line 241: the mouse pointer leaves the wrapper
MouseLeave ==
    /\ over
    /\ over' = FALSE
    /\ cancelPress
    /\ UNCHANGED <<press, long, STATE_masks, loadSt, refImg, initSt,
                   callVars, workerVars>>

\* The mouse pointer comes over the wrapper: no handler
MouseEnter ==
    /\ ~over
    /\ over' = TRUE
    /\ UNCHANGED <<pressTimer, pending, isLongPress, proc, lightbox, press, long,
                   STATE_masks, loadSt, refImg, initSt, callVars, workerVars>>

\* 250 ms (longPressDuration, line 187) have passed since pointer p went down:
\* its timeout, if still pending, runs the callback of lines 194-197
After250(p) ==
    /\ (press[p] # "up" /\ ~long[p]) \/ p \in pending
    /\ long' = [long EXCEPT ![p] = (press[p] # "up")]
    /\ IF p \in pending
       THEN /\ pending' = pending \ {p}
            /\ isLongPress' = TRUE
            /\ proc' = startCompare(proc)
       ELSE UNCHANGED <<pending, isLongPress, proc>>
    /\ UNCHANGED <<pressTimer, lightbox, press, over, STATE_masks, loadSt, refImg,
                   initSt, callVars, workerVars>>

\* Lightbox.close, lines 523-528 (close button, backdrop click or Escape)
Lightbox_close ==
    /\ lightbox.display = "flex"
    /\ lightbox' = Lightbox_closed
    /\ UNCHANGED <<pressTimer, pending, isLongPress, proc, press, long, over,
                   STATE_masks, loadSt, refImg, initSt, callVars, workerVars>>

\* The pictures dropped on the page
PressPictures == {Picture(66, 70, 131), Picture(1025, 1025, 0)}

\* The page with both masks calibrated and init() resolved, a file dropped and
\* its image just loaded: processAndRender has set the 50 ms timer
PressInit ==
    /\ refImg = [small |-> RefImage(MaxMaskDim, 1, 0),
                 large |-> RefImage(MaxMaskDim, MaxMaskDim, 1)]
    /\ STATE_masks = [t \in MaskTypes |-> Calibrate(refImg[t])]
    /\ loadSt = [t \in MaskTypes |-> "loaded"]
    /\ initSt = "ok"
    /\ \E img \in PressPictures :
          proc = [config |-> [forceMode |-> "auto", alphaGain |-> GainDen],
                  originalImage |-> img,
                  processedImageData |-> Null,
                  loading |-> TRUE,
                  downloadDisabled |-> TRUE,
                  canvas |-> Null,
                  timers |-> 1]
    /\ PressIdle
    /\ WorkerInit
    /\ arg = NoArg
    /\ ret = NoCall

\* (the timer callback of processAndRender is the same in the revision,
\* lines 271-296)
PressNext ==
    \/ \E b \in MouseButtons : MouseDown(b)
    \/ \E b \in MouseButtons : MouseDownElsewhere(b)
    \/ \E t \in Pointers \ MouseButtons : TouchStart(t)
    \/ \E b \in MouseButtons : MouseUp(b)
    \/ \E b \in MouseButtons : MouseUpElsewhere(b)
    \/ \E t \in Pointers \ MouseButtons : TouchEnd(t)
    \/ MouseLeave
    \/ MouseEnter
    \/ \E p \in Pointers : After250(p)
    \/ Lightbox_close
    \/ TimerFired

PressSpec == PressInit /\ [][PressNext]_vars

Next ==
    \/ \E type \in MaskTypes : MaskLoaded(type)
    \/ \E type \in MaskTypes : MaskFailed(type)
    \/ InitDone
    \/ InitFailed
    \/ HandleFile
    \/ ImageLoaded
    \/ ChangeMode
    \/ ChangeGain
    \/ TimerFired

Init == PageInit /\ WorkerInit /\ PressIdle /\ arg = NoArg /\ ret = NoCall

Spec == Init /\ [][Next]_vars

WorkerSpec == Init /\ [][WorkerNext]_vars

---------------------------------------------------------------------------
(* One call of removeWatermark on drawn inputs *)

CallInit ==
    /\ arg \in [imageData : Pictures, config : Configs, masks : MaskTables]
    /\ ret = NoCall
    /\ WorkerInit
    /\ PageInit
    /\ PressIdle

CallWorker ==
    /\ ret = NoCall
    /\ ret' = [impl |-> "worker"] @@ removeWatermark(arg.imageData, arg.config, arg.masks)
    /\ UNCHANGED <<arg, workerVars, pageVars, pressVars>>

CallPage ==
    /\ ret = NoCall
    /\ ret' = [impl |-> "page"]
                @@ ImageProcessor_removeWatermark(arg.imageData, arg.config, arg.masks)
    /\ UNCHANGED <<arg, workerVars, pageVars, pressVars>>

CallLater ==
    /\ ret = NoCall
    /\ ret' = [impl |-> "later"]
                @@ ImageProcessor_removeWatermark_later(arg.imageData, arg.config,
                                                        arg.masks)
    /\ UNCHANGED <<arg, workerVars, pageVars, pressVars>>

CallNext == CallWorker \/ CallPage \/ CallLater

CallSpec == CallInit /\ [][CallNext]_vars

---------------------------------------------------------------------------
(* One call of removeWatermark on a synthetic buffer: a single watermarked  *)
(* pixel under a one-pixel mask, every observed sample and many alphas      *)

\* Size of the synthetic buffer; the small mask's pixel lands on (PxX, PxY)
PxWidth == MARGIN_SMALL + 1 + 7
PxHeight == MARGIN_SMALL + 1 + 2
PxIdx == ((PxHeight - MARGIN_SMALL - 1) * PxWidth + (PxWidth - MARGIN_SMALL - 1)) * 4

\* The three colour samples placed under the mask for a drawn sample obs
PxObserved(obs) == <<obs, (obs + 85) % 256, (obs + 170) % 256>>

Synthetic(obs) ==
    LET o == PxObserved(obs)
        base == [seed |-> 0, over |-> <<>>]
    IN  [width |-> PxWidth, height |-> PxHeight,
         data |-> SetSample(SetSample(SetSample(base, PxIdx, o[1]),
                                      PxIdx + 1, o[2]), PxIdx + 2, o[3])]

\* Mask alphas (numerators over AlphaDen): every multiple of 1/51, and
\* 0.001, 0.002, 1/255, 2/3, 0.9, 0.98, 0.99
PxAlphas ==
    {1000 * k : k \in 0..51} \cup {51, 102, 200, 34000, 45900, 49980, 50490}

\* Gains (numerators over GainDen): 0.5, 1.0, 1.5, 3.0
PxGains == {10, 20, 30, 60}

PixelInit ==
    /\ \E obs \in 0..255, a \in PxAlphas, g \in PxGains :
          arg = [imageData |-> Synthetic(obs),
                 config |-> [forceMode |-> "auto", alphaGain |-> g],
                 masks |-> [small |-> ConstMask(1, 1, a), large |-> Null]]
    /\ ret = NoCall
    /\ WorkerInit
    /\ PageInit
    /\ PressIdle

PixelSpec == PixelInit /\ [][CallNext]_vars

---------------------------------------------------------------------------
(* Properties of one call.  What the claims say is written here from their  *)
(* own words, without the operators of the code above.                      *)

Called == ret # NoCall

Abs(x) == IF x < 0 THEN -x ELSE x

\* Step 1 as the specification states it
StatedMode(forceMode, w, h) ==
    IF forceMode = "auto"
    THEN IF w > 1024 /\ h > 1024 THEN "large" ELSE "small"
    ELSE forceMode

ArgW == arg.imageData.width
ArgH == arg.imageData.height
ArgMode == StatedMode(arg.config.forceMode, ArgW, ArgH)
ArgMask == IF ArgMode = "large" THEN arg.masks.large ELSE arg.masks.small
ArgMargin == IF ArgMode = "large" THEN 64 ELSE 32
ArgPosX == ArgW - ArgMargin - ArgMask.width
ArgPosY == ArgH - ArgMargin - ArgMask.height
ArgFits == ArgMask # Null /\ ArgPosX >= 0 /\ ArgPosY >= 0

\* The indices at which two buffers differ
Changed(d1, d2) ==
    {i \in (DOMAIN d1.over) \cup (DOMAIN d2.over) : Sample(d1, i) # Sample(d2, i)}

\* C1: in auto mode 'large' is selected iff width > 1024 and height > 1024,
\* every other size selects 'small'; a forced mode is used whatever the size.
C1_ModeResolution ==
    Called =>
        /\ arg.config.forceMode = "auto" =>
              /\ ret.mode \in {"small", "large"}
              /\ ret.mode = "large" <=> (ArgW > 1024 /\ ArgH > 1024)
        /\ arg.config.forceMode # "auto" => ret.mode = arg.config.forceMode

C1_Witness ==
    /\ Called /\ ret.impl = "worker"
    /\ arg.config.forceMode = "auto"
    /\ ArgW = 1025 /\ ArgH = 1024
    /\ ret.mode = "small"

\* Step 3 as the specification states it, for one observed sample and an
\* effective alpha eff/EffDen: skipped below 0.002, alpha at most 0.99, the
\* result clamped to [0, 255] and stored as the nearest integer (ties to even)
StatedUnblend(observed, eff) ==
    IF eff * 500 < EffDen THEN observed
    ELSE LET al == IF eff * 100 > 99 * EffDen THEN (99 * EffDen) \div 100 ELSE eff
             num == observed * EffDen - 255 * al
             den == EffDen - al
             q == num \div den
         IN  IF num <= 0 THEN 0
             ELSE IF num >= 255 * den THEN 255
             ELSE CHOOSE n \in {q, q + 1} :
                     LET m == 2 * q + 1 - n
                     IN  \/ Abs(n * den - num) < Abs(m * den - num)
                         \/ Abs(n * den - num) = Abs(m * den - num) /\ n % 2 = 0

\* A call that returned without error and whose mask fits has unblended the
\* pixel under every mask pixel
C2_FullyApplied ==
    (Called /\ ret.outcome = "ok" /\ ArgFits) =>
        \A k \in 0..(ArgMask.width * ArgMask.height - 1) : \A c \in 0..2 :
            LET ix == ArgPosX + (k % ArgMask.width)
                iy == ArgPosY + (k \div ArgMask.width)
                idx == (iy * ArgW + ix) * 4 + c
            IN  Sample(ret.imageData.data, idx)
                  = StatedUnblend(Sample(arg.imageData.data, idx),
                                  ArgMask.alphas[k + 1] * arg.config.alphaGain)

\* C2 (as claimed): a call whose needed mask is unset fails with an error and
\* changes no byte of the buffer; a call that returns without error and
\* whose mask fits is fully applied.
C2_MissingMaskFails ==
    /\ (Called /\ ArgMask = Null) =>
          /\ ret.outcome = "error"
          /\ ret.imageData = arg.imageData
    /\ C2_FullyApplied

\* C8: only R, G, B samples of pixels inside the watermark rectangle change;
\* alpha samples and all samples outside it are unchanged, and no sample
\* outside 0..width*height*4-1 is written.
C8_Frame ==
    Called =>
        /\ ret.imageData.width = ArgW /\ ret.imageData.height = ArgH
        /\ DOMAIN ret.imageData.data.over \subseteq 0..(ArgW * ArgH * 4 - 1)
        /\ ~ArgFits => ret.imageData = arg.imageData
        /\ ArgFits =>
              \A i \in Changed(arg.imageData.data, ret.imageData.data) :
                  LET ix == (i \div 4) % ArgW
                      iy == (i \div 4) \div ArgW
                  IN  /\ i % 4 # 3
                      /\ ArgPosX <= ix /\ ix < ArgPosX + ArgMask.width
                      /\ ArgPosY <= iy /\ iy < ArgPosY + ArgMask.height

C8_Witness ==
    /\ Called /\ ArgFits
    /\ ArgMask.width = 2 /\ ArgMask.height = 2
    /\ Cardinality(Changed(arg.imageData.data, ret.imageData.data)) >= 6

\* C17 (as claimed): whichever copy is called (worker.js, script.js or the
\* later revision), the call leaves the buffer as the worker's removeWatermark
\* leaves it on the same buffer, config and masks, and has the same outcome
\* (success or failure), the needed mask being set or not.
C17_SameResult ==
    Called =>
        LET w == removeWatermark(arg.imageData, arg.config, arg.masks)
        IN  /\ ret.imageData = w.imageData
            /\ ret.outcome = w.outcome

---------------------------------------------------------------------------
(* Properties of the per-sample arithmetic, on the synthetic buffer *)

PxMaskAlpha == arg.masks.small.alphas[1]
PxGain == arg.config.alphaGain
\* the effective alpha mask alpha * gain, a numerator over EffDen
PxEff == PxMaskAlpha * PxGain
PxIn(c) == Sample(arg.imageData.data, PxIdx + c)
PxOut(c) == Sample(ret.imageData.data, PxIdx + c)

\* observed = round(alpha*255 + (1-alpha)*original), alpha = a/AlphaDen
Forward(a, original) ==
    (2 * (a * 255 + (AlphaDen - a) * original) + AlphaDen) \div (2 * AlphaDen)

\* 0.002 <= alpha < 0.99 for a mask alpha a/AlphaDen
InRoundTripRange(a) == a * 500 >= AlphaDen /\ a * 100 < 99 * AlphaDen

\* C4 (as claimed): with gain 1.0 and 0.002 <= alpha < 0.99, a sample generated
\* by the forward formula from `original` is recovered within 1.
C4_RoundTripWithin1 ==
    (Called /\ PxGain = GainDen /\ InRoundTripRange(PxMaskAlpha)) =>
        \A c \in 0..2 : \A original \in 0..255 :
            Forward(PxMaskAlpha, original) = PxIn(c) => Abs(PxOut(c) - original) <= 1

\* C4 (amended): the recovered sample is within 0.5 + 0.5/(1 - alpha) of the
\* original, which is within 1 whenever alpha <= 2/3.
C4_RoundTripBound ==
    (Called /\ PxGain = GainDen /\ InRoundTripRange(PxMaskAlpha)) =>
        \A c \in 0..2 : \A original \in 0..255 :
            Forward(PxMaskAlpha, original) = PxIn(c) =>
                /\ 2 * (AlphaDen - PxMaskAlpha) * Abs(PxOut(c) - original)
                      <= (AlphaDen - PxMaskAlpha) + AlphaDen
                /\ 3 * PxMaskAlpha <= 2 * AlphaDen => Abs(PxOut(c) - original) <= 1

C4_Witness ==
    /\ Called /\ PxGain = GainDen /\ PxMaskAlpha = 34000
    /\ \E original \in 1..254 :
          /\ Forward(PxMaskAlpha, original) = PxIn(0)
          /\ Abs(PxOut(0) - original) = 1

\* The unblend at alpha = 0.99: (observed - 252.45) / 0.01 = 100*observed - 25245
At99(observed) ==
    LET raw == 100 * observed - 25245
    IN  IF raw < 0 THEN 0 ELSE IF raw > 255 THEN 255 ELSE raw

\* C5: an effective alpha above 0.99 (1.5, say) writes exactly the samples
\* computed with alpha = 0.99.
C5_AlphaClamp ==
    (Called /\ PxEff * 100 > 99 * EffDen) =>
        \A c \in 0..2 : PxOut(c) = At99(PxIn(c))

C5_Witness ==
    /\ Called /\ ret.impl = "page"
    /\ 2 * PxEff = 3 * EffDen
    /\ PxIn(0) = 254 /\ PxOut(0) = 155

\* The effective alpha the division uses: mask alpha * gain, at most 0.99
PxUsed == IF PxEff * 100 > 99 * EffDen THEN (99 * EffDen) \div 100 ELSE PxEff
\* numerator of the raw result (observed - alpha*255) / (1 - alpha), whose
\* denominator EffDen - PxUsed is positive
PxRawNum(c) == PxIn(c) * EffDen - PxUsed * 255
PxSkipped == PxEff * 500 < EffDen

\* C6: the stored value is an integer in 0..255; a negative raw result is
\* stored as 0 and a raw result above 255 as 255.
C6_OutputClamp ==
    Called =>
        \A c \in 0..2 :
            /\ PxOut(c) \in 0..255
            /\ ~PxSkipped =>
                  /\ PxRawNum(c) < 0 => PxOut(c) = 0
                  /\ PxRawNum(c) > 255 * (EffDen - PxUsed) => PxOut(c) = 255

C6_Witness ==
    /\ Called /\ ~PxSkipped
    /\ PxIn(0) = 100 /\ PxRawNum(0) < 0 /\ PxOut(0) = 0
    /\ PxRawNum(1) >= 0 /\ PxOut(1) \in 1..254

\* The unblend at alpha = 0.002: (observed - 0.51) / 0.998, rounded, which is
\* observed - 1 for observed in 1..5 and observed otherwise
At002(observed) == IF observed \in 1..5 THEN observed - 1 ELSE observed

\* C7: a pixel whose effective alpha is below 0.002 keeps its R, G, B; a mask
\* of constant alpha 0.001 with gain 1.0 leaves the whole buffer unchanged;
\* an effective alpha of exactly 0.002 is not skipped.
C7_ThresholdSkip ==
    Called =>
        /\ PxEff * 500 < EffDen => \A c \in 0..2 : PxOut(c) = PxIn(c)
        /\ (PxMaskAlpha * 1000 = AlphaDen /\ PxGain = GainDen) =>
              ret.imageData = arg.imageData
        /\ PxEff * 500 = EffDen => \A c \in 0..2 : PxOut(c) = At002(PxIn(c))

C7_Witness ==
    /\ Called
    /\ PxEff * 500 = EffDen
    /\ PxIn(0) = 3 /\ PxOut(0) = 2

\* The alpha the called implementation computed for the pixel, a numerator
\* over EffDen; -1 when it skipped the pixel
AlphaUsed ==
    IF ret.impl = "worker" THEN W_alpha(PxMaskAlpha, PxGain)
    ELSE IF ret.impl = "page" THEN P_alpha(PxMaskAlpha, PxGain)
    ELSE L_alpha(PxMaskAlpha, PxGain)

\* C16: for a processed pixel the alpha used in the division is within
\* [0.002, 0.99], so the divisor 1 - alpha is at least 0.01 (positive), and
\* the stored samples are those of the division with that alpha.
C16_AlphaRange ==
    (Called /\ AlphaUsed # -1) =>
        /\ AlphaUsed * 500 >= EffDen
        /\ AlphaUsed * 100 <= 99 * EffDen
        /\ (EffDen - AlphaUsed) * 100 >= EffDen
        /\ \A c \in 0..2 : PxOut(c) = StatedUnblend(PxIn(c), AlphaUsed)

C16_Witness ==
    /\ Called /\ ret.impl = "worker"
    /\ PxGain = 60 /\ PxMaskAlpha = 45900
    /\ AlphaUsed * 100 = 99 * EffDen
    /\ PxIn(1) = 254 /\ PxOut(1) = 155

---------------------------------------------------------------------------
(* Properties of the worker *)

\* The mask table in force when the j-th message is handled: the payload of
\* the last INIT_MASKS before it
RECURSIVE MasksBefore(_)
MasksBefore(j) ==
    IF j = 1 THEN NoMasks
    ELSE IF sent[j - 1].type = "INIT_MASKS" THEN sent[j - 1].payload
    ELSE MasksBefore(j - 1)

\* The replies carrying a request's id
Replies(id) == {k \in 1..Len(outbox) : outbox[k].id = id}

\* The j-th message is a handled request whose mask is set and does not fit:
\* posX or posY is negative
TooSmallRequest(j) ==
    /\ j \in 1..nHandled
    /\ sent[j].type = "PROCESS_IMAGE"
    /\ LET req == sent[j].payload
           w == req.imageData.width
           h == req.imageData.height
           mode == StatedMode(req.config.forceMode, w, h)
           mask == MasksBefore(j)[mode]
           margin == IF mode = "large" THEN 64 ELSE 32
       IN  /\ mask # Null
           /\ w - margin - mask.width < 0 \/ h - margin - mask.height < 0

\* C3: when posX or posY is negative the buffer is left unchanged and no error
\* is raised: the worker answers PROCESS_COMPLETE, never PROCESS_ERROR.
C3_TooSmallIsNoOp ==
    \A j \in 1..nHandled :
        TooSmallRequest(j) =>
            /\ Replies(sent[j].payload.id) # {}
            /\ \A k \in Replies(sent[j].payload.id) :
                  /\ outbox[k].type = "PROCESS_COMPLETE"
                  /\ outbox[k].payload.imageData = sent[j].payload.imageData

C3_Witness ==
    \E j \in 1..nHandled :
        /\ TooSmallRequest(j)
        /\ sent[j].payload.config.forceMode = "large"
        /\ sent[j].payload.imageData.width = 32
        /\ \E k \in Replies(sent[j].payload.id) : outbox[k].type = "PROCESS_COMPLETE"

\* The j-th message is a handled request
HandledRequest(j) == j \in 1..nHandled /\ sent[j].type = "PROCESS_IMAGE"

NeededMaskSet(j) ==
    LET req == sent[j].payload
        mode == StatedMode(req.config.forceMode,
                           req.imageData.width, req.imageData.height)
    IN  MasksBefore(j)[mode] # Null

\* The replies (type and id) due once the first j messages are handled: one
\* per request, in the order of the requests, none for any other message
RECURSIVE RepliesDue(_)
RepliesDue(j) ==
    IF j = 0 THEN <<>>
    ELSE IF sent[j].type = "PROCESS_IMAGE"
    THEN Append(RepliesDue(j - 1),
                [type |-> IF NeededMaskSet(j) THEN "PROCESS_COMPLETE" ELSE "PROCESS_ERROR",
                 id |-> sent[j].payload.id])
    ELSE RepliesDue(j - 1)

\* C14: every handled PROCESS_IMAGE has exactly one reply carrying its id,
\* PROCESS_COMPLETE with an imageData when the needed mask is set and
\* PROCESS_ERROR when it is not; the replies are in the order of the requests;
\* INIT_MASKS (and any other message) has no reply.
C14_WorkerProtocol ==
    /\ [k \in 1..Len(outbox) |-> [type |-> outbox[k].type, id |-> outbox[k].id]]
          = RepliesDue(nHandled)
    /\ \A j \in 1..nHandled :
          HandledRequest(j) =>
              /\ Cardinality(Replies(sent[j].payload.id)) = 1
              /\ \A k \in Replies(sent[j].payload.id) :
                    IF NeededMaskSet(j)
                    THEN /\ outbox[k].type = "PROCESS_COMPLETE"
                         /\ outbox[k].payload.imageData.width
                               = sent[j].payload.imageData.width
                         /\ outbox[k].payload.imageData.height
                               = sent[j].payload.imageData.height
                    ELSE outbox[k].type = "PROCESS_ERROR"
    /\ Len(outbox) = Cardinality({j \in 1..nHandled : sent[j].type = "PROCESS_IMAGE"})

C14_Witness ==
    /\ nHandled = 3 /\ Len(outbox) = 2
    /\ sent[1].type = "PROCESS_IMAGE" /\ sent[2].type = "INIT_MASKS"
    /\ sent[3].type = "PROCESS_IMAGE"
    /\ outbox[1].type = "PROCESS_ERROR" /\ outbox[1].id = 1
    /\ outbox[2].type = "PROCESS_COMPLETE" /\ outbox[2].id = 3

\* C10 (as claimed): a mask slot that has been set is never changed again, by
\* any worker message or page event.
C10_MasksWrittenOnce ==
    [][\A t \in MaskTypes :
          /\ workerMasks[t] # Null => workerMasks'[t] = workerMasks[t]
          /\ STATE_masks[t] # Null => STATE_masks'[t] = STATE_masks[t]]_vars

---------------------------------------------------------------------------
(* Properties of the page *)

\* C9: the calibrated mask has the reference image's width and height,
\* width*height alphas, each max(R, G, B)/255 of its pixel (the pixel's own
\* alpha ignored) and within [0, 1]; (128, 40, 200) gives 200/255.
C9_Calibration ==
    \A t \in MaskTypes :
        STATE_masks[t] # Null =>
            LET m == STATE_masks[t]
                img == refImg[t]
            IN  /\ m.width = img.width /\ m.height = img.height
                /\ Len(m.alphas) = m.width * m.height
                /\ \A i \in 1..Len(m.alphas) :
                      LET rgb == {img.data[4 * (i - 1) + c] : c \in 1..3}
                          top == CHOOSE x \in rgb : \A y \in rgb : x >= y
                      IN  /\ 255 * m.alphas[i] = top * AlphaDen
                          /\ 0 <= m.alphas[i] /\ m.alphas[i] <= AlphaDen
                          /\ rgb = {128, 40, 200} => 255 * m.alphas[i] = 200 * AlphaDen

C9_Witness ==
    /\ STATE_masks.large # Null
    /\ STATE_masks.large.width = 2 /\ STATE_masks.large.height = 2
    /\ \E i \in 1..4 :
          /\ refImg.large.data[4 * (i - 1) + 1] = 128
          /\ refImg.large.data[4 * (i - 1) + 2] = 40
          /\ refImg.large.data[4 * (i - 1) + 3] = 200
          /\ STATE_masks.large.alphas[i] = 40000


\* A step in which a 50 ms processing timer of the card fires
TimerStep == proc # Null /\ proc' # Null /\ proc'.timers = proc.timers - 1

\* The mask a run of the card needs: that of the mode its config resolves to
NeededMode(p) ==
    StatedMode(p.config.forceMode, p.originalImage.width, p.originalImage.height)

\* A mask is set and the picture has room for it and its margin
Fits(mask, img, mode) ==
    /\ mask # Null
    /\ img.width - (IF mode = "large" THEN 64 ELSE 32) - mask.width >= 0
    /\ img.height - (IF mode = "large" THEN 64 ELSE 32) - mask.height >= 0

\* C11 (as claimed): a run in 'auto' mode changes the picture only when the
\* calibration of both masks has finished (each loaded or failed); a run in a
\* forced mode whose own mask is loaded and fits unblends the picture with it,
\* whatever became of the other mask.
C11_AutoNeedsBothMasks ==
    [][TimerStep =>
          /\ (/\ proc.config.forceMode = "auto"
              /\ proc'.processedImageData # proc.originalImage)
                => \A t \in MaskTypes : loadSt[t] # "loading"
          /\ (/\ proc.config.forceMode # "auto"
              /\ Fits(STATE_masks[proc.config.forceMode], proc.originalImage,
                      proc.config.forceMode))
                => \A c \in 0..2 :
                      LET mask == STATE_masks[proc.config.forceMode]
                          margin == IF proc.config.forceMode = "large" THEN 64 ELSE 32
                          w == proc.originalImage.width
                          idx == ((proc.originalImage.height - margin - mask.height) * w
                                    + (w - margin - mask.width)) * 4 + c
                      IN  Sample(proc'.processedImageData.data, idx)
                            = StatedUnblend(Sample(proc.originalImage.data, idx),
                                            mask.alphas[1] * proc.config.alphaGain)]_vars

\* C12 (as claimed): a run whose needed mask is not loaded yet does not mark
\* the image as processed (processedImageData set, download enabled).
C12_NoResultWithoutMask ==
    [][(TimerStep /\ STATE_masks[NeededMode(proc)] = Null) =>
          ~(proc'.processedImageData # Null /\ ~proc'.downloadDisabled)]_vars

\* The card has its image and no processing timer pending
Settled(p) == p # Null /\ p.originalImage # Null /\ p.timers = 0

\* C15: whenever the card is settled, processedImageData is removeWatermark
\* applied once to the original image under the current forceMode and
\* alphaGain: the step that settles it is a run that computes exactly that
\* (with the masks as they are then), and while it stays settled neither the
\* result, the config nor the original changes.
C15_SingleApplication ==
    [][Settled(proc') =>
          \/ /\ TimerStep
             /\ proc'.processedImageData
                   = ImageProcessor_removeWatermark(proc'.originalImage, proc'.config,
                                                    STATE_masks').imageData
          \/ /\ Settled(proc)
             /\ proc'.processedImageData = proc.processedImageData
             /\ proc'.config = proc.config
             /\ proc'.originalImage = proc.originalImage]_vars

C15_Witness ==
    /\ Settled(proc)
    /\ proc.config = [forceMode |-> "small", alphaGain |-> 30]
    /\ proc.processedImageData # proc.originalImage
    /\ proc.processedImageData
          = ImageProcessor_removeWatermark(proc.originalImage, proc.config,
                                           STATE_masks).imageData

---------------------------------------------------------------------------
(* Properties of the press handling (later revision) *)

\* The pointers whose press the wrapper takes: the left button and fingers
Pressers == Pointers \ {"right"}

\* A step that opens the lightbox is the release of a left-button or touch
\* press begun on the wrapper and held for less than 250 ms
OpensOnlyOnShortPress ==
    (lightbox.display = "none" /\ lightbox'.display = "flex") =>
        \E p \in Pressers :
            press[p] = "wrapper" /\ press'[p] = "up" /\ ~long[p]

\* A press begun on the wrapper that reaches 250 ms shows the original image;
\* the release of such a press, or a mouseleave during it, puts the processed
\* image back and does not open the lightbox
LongPressCompares ==
    /\ \A p \in Pressers :
          (press[p] = "wrapper" /\ ~long[p] /\ long'[p]) =>
              proc'.canvas = proc'.originalImage
    /\ \A p \in Pressers :
          (/\ press[p] = "wrapper" /\ long[p]
           /\ press'[p] = "up" \/ (over /\ ~over')) =>
              /\ lightbox' = lightbox
              /\ proc.processedImageData # Null =>
                    proc'.canvas = proc'.processedImageData

\* With no press in progress the canvas shows the processed image (once there
\* is one) and no comparison timer is pending
IdleShowsProcessed ==
    (\A p \in Pointers : press[p] = "up") =>
        /\ pending = {}
        /\ proc.processedImageData # Null => proc.canvas = proc.processedImageData

\* C18 (as claimed): the lightbox is opened only by the release of a
\* left-button or touch press begun on the wrapper and held under 250 ms; a
\* press held 250 ms or longer shows the original image, and its release or a
\* mouseleave restores the processed image without opening the lightbox; with
\* no press in progress the canvas shows the processed image and no
\* comparison timer is pending.
C18_PressHandling ==
    [][/\ OpensOnlyOnShortPress
       /\ LongPressCompares
       /\ IdleShowsProcessed']_vars

=============================================================================
